---- MODULE Spec2Model ----
(***************************************************************************)
(* Receipt extraction tool: the region extractor (extract_receipts), the   *)
(* response parser (get_bounding_boxes_from_response) and the orchestrator *)
(* (main), modelled from src/extract_receipts.py, src/main.py and          *)
(* src/pdf2img.py.                                                         *)
(*                                                                         *)
(* Numbers: a coordinate of the model response may be fractional.  A raw   *)
(* coordinate is an integer count of 1/Scale pixels; int() truncates it    *)
(* toward zero to whole pixels.  Image sizes and boxes after int() are in  *)
(* whole pixels.                                                           *)
(***************************************************************************)
EXTENDS Integers, Sequences, FiniteSets, TLC

VARIABLES
    \* extract_receipts(image_path, bounding_boxes)
    image,            \* the file at image_path: [loadable, width, height, channels]
    bounding_boxes,   \* the descriptor list passed in
    i,                \* enumerate index of the for loop (1-based), line 45
    receipts,         \* the list built at lines 43, 108
    log,              \* one record per processed descriptor (what lines 47-116 log)
    epc,              \* position in extract_receipts: "load", "loop", "done"
    \* get_bounding_boxes_from_response(response_content)
    response_content, \* the argument: [isstr, tokens], text as a token sequence
    parsed,           \* what the call gave its caller: [raised, value]
    ppc,              \* position: "idle", "call", "done"
    \* main()
    env,              \* what the run finds: credential, flags, folders, PDFs
    output_pages,     \* the image files in the pages folder
    pdf_files,        \* line 86: the PDFs listed, each by its page count
    pdf_idx,          \* the for loop of line 90 (1-based)
    page_num,         \* the for loop of pdf2img.py line 152 (1-based)
    image_files,      \* line 104
    img_idx,          \* the for loop of line 110 (1-based)
    save_idx,         \* the for loop of line 146 (1-based)
    written,          \* receipt files written: <<page file, index>>
    events,           \* the steps taken so far, in order: [step, file]
    reported,         \* the fatal errors logged
    dirs_made,        \* lines 46-48 have run
    failures,         \* the contained errors logged so far: [step, file]
    interrupt_at,     \* where a KeyboardInterrupt arrived, "" if none did
    exit_status,      \* the status given to sys.exit, NoStatus while running
    mpc               \* position in main

xvars == <<image, bounding_boxes, i, receipts, log, epc>>
pvars == <<response_content, parsed, ppc>>
mvars == <<env, output_pages, pdf_files, pdf_idx, page_num, image_files, img_idx,
           save_idx, written, events, reported, dirs_made, failures, interrupt_at,
           exit_status, mpc>>
vars == <<image, bounding_boxes, i, receipts, log, epc, response_content, parsed, ppc,
          env, output_pages, pdf_files, pdf_idx, page_num, image_files, img_idx,
          save_idx, written, events, reported, dirs_made, failures, interrupt_at,
          exit_status, mpc>>

----------------------------------------------------------------------------
(* Bounds *)

Scale == 2        \* raw coordinates are multiples of 1/Scale pixel
MaxBoxes == 3     \* longest descriptor list drawn from CoreDescriptors
MaxKeys == 2      \* most entries of a decoded mapping
MaxTokens == 3    \* longest free-form response text, in tokens
MaxPages == 2     \* most page images a run of main meets

(* Program constant *)
PAD == 20         \* the margin of the crop, line 100

Px(n) == n * Scale

Max(a, b) == IF a >= b THEN a ELSE b
Min(a, b) == IF a <= b THEN a ELSE b

SeqsUpTo(S, n) == UNION {[1..k -> S] : k \in 0..n}

----------------------------------------------------------------------------
(* Region descriptors.  A descriptor is a mapping (kind "dict") with some  *)
(* of the keys coordinates, bbox, bbox_2d, a bare list (kind "list"), or   *)
(* anything else (kind "other": a number, a string, null).  numeric is     *)
(* FALSE when an element of the coordinate list is not a number (null, a   *)
(* nested list, text), so that comparison, addition or int() raises        *)
(* TypeError or ValueError.                                                *)

NoCoords == <<>>

DictDesc(ks, c, b, b2) ==
    [kind |-> "dict", keys |-> ks, coordinates |-> c, bbox |-> b, bbox_2d |-> b2,
     elems |-> NoCoords, numeric |-> TRUE]

ListDesc(c) ==
    [kind |-> "list", keys |-> {}, coordinates |-> NoCoords, bbox |-> NoCoords,
     bbox_2d |-> NoCoords, elems |-> c, numeric |-> TRUE]

OtherDesc ==
    [kind |-> "other", keys |-> {}, coordinates |-> NoCoords, bbox |-> NoCoords,
     bbox_2d |-> NoCoords, elems |-> NoCoords, numeric |-> TRUE]

NonNumeric(d) == [d EXCEPT !.numeric = FALSE]

----------------------------------------------------------------------------
(* extract_receipts, lines 50-61: the coordinate list of a descriptor.     *)

Recognized(bbox) ==
    \/ bbox.kind = "dict" /\ bbox.keys \cap {"coordinates", "bbox", "bbox_2d"} # {}
    \/ bbox.kind = "list"

CoordinatesOf(bbox) ==
    IF bbox.kind = "dict" /\ "coordinates" \in bbox.keys THEN bbox.coordinates
    ELSE IF bbox.kind = "dict" /\ "bbox" \in bbox.keys THEN bbox.bbox
    ELSE IF bbox.kind = "dict" /\ "bbox_2d" \in bbox.keys THEN bbox.bbox_2d
    ELSE bbox.elems

(* Lines 65-69: four coordinates.                                          *)
RawBox4_AndMutant(c) ==
    IF c[3] < c[1] /\ c[4] < c[2]
    THEN <<c[1], c[2], c[1] + c[3], c[2] + c[4]>>
    ELSE <<c[1], c[2], c[3], c[4]>>

RawBox4(c) ==
    IF c[3] < c[1] \/ c[4] < c[2]
    THEN <<c[1], c[2], c[1] + c[3], c[2] + c[4]>>
    ELSE <<c[1], c[2], c[3], c[4]>>

(* Python's min() and max() over a non-empty sequence, left to right.      *)
RECURSIVE MinOf(_)
MinOf(s) == IF Len(s) = 1 THEN s[1] ELSE Min(s[1], MinOf(Tail(s)))

RECURSIVE MaxOf(_)
MaxOf(s) == IF Len(s) = 1 THEN s[1] ELSE Max(s[1], MaxOf(Tail(s)))

(* coordinates[start::2] with start 0 or 1 (0-based), lines 72-73.         *)
EveryOther(c, start) ==
    [k \in 1..((Len(c) - start + 1) \div 2) |-> c[start + 2 * k - 1]]

(* Lines 70-74: eight coordinates.                                         *)
RawBox8_PrefixMutant(c) ==
    LET xs == SubSeq(c, 1, 4)
        ys == SubSeq(c, 5, 8)
    IN  <<MinOf(xs), MinOf(ys), MaxOf(xs), MaxOf(ys)>>

RawBox8(c) ==
    LET xs == EveryOther(c, 0)
        ys == EveryOther(c, 1)
    IN  <<MinOf(xs), MinOf(ys), MaxOf(xs), MaxOf(ys)>>

(* int(), line 80: truncation toward zero.                                 *)
Trunc(v) == IF v >= 0 THEN v \div Scale ELSE -((-v) \div Scale)

IntBox(b) == <<Trunc(b[1]), Trunc(b[2]), Trunc(b[3]), Trunc(b[4])>>

(* Lines 83-87: clamp to the image.                                        *)
ClampBox(b, img) ==
    <<Max(0, b[1]), Max(0, b[2]), Min(img.width, b[3]), Min(img.height, b[4])>>

(* Line 90: the validity test.                                             *)
Degenerate_GtMutant(b) == b[1] > b[3] \/ b[2] > b[4]

Degenerate(b) == b[1] >= b[3] \/ b[2] >= b[4]

(* One axis of a numpy slice a[start:stop] over an axis of length n:       *)
(* a negative bound counts from the end, then both are clipped to 0..n.    *)
SliceBound(v, n) == IF v < 0 THEN Max(0, v + n) ELSE Min(v, n)

SliceAxis(start, stop, n) == <<SliceBound(start, n), SliceBound(stop, n)>>

(* Line 100: image_np[y1-20:y2+20, x1-20:x2+20], as                        *)
(* [rows |-> <<first, end>>, cols |-> <<first, end>>].                     *)
CropOf(b, img) ==
    [rows |-> SliceAxis(b[2] - PAD, b[4] + PAD, img.height),
     cols |-> SliceAxis(b[1] - PAD, b[3] + PAD, img.width)]

AxisLen(a) == Max(0, a[2] - a[1])

(* cropped.size, line 101.                                                 *)
CropSize(c, img) == AxisLen(c.rows) * AxisLen(c.cols) * img.channels

(* Channels of image_np after lines 38-41: RGBA becomes BGR, RGB becomes   *)
(* BGR, anything else (a 2-D greyscale array, counted as 1) is untouched.  *)
ChannelsAfterBGR(img) == IF img.channels = 4 THEN 3 ELSE img.channels

(* cv2.cvtColor(cropped, COLOR_BGR2RGB), line 106, takes 3 or 4 channels.  *)
ConvertsToRGB(img) == ChannelsAfterBGR(img) \in {3, 4}

NoBox == <<0, 0, 0, 0>>
NoCrop == [rows |-> <<0, 0>>, cols |-> <<0, 0>>]

Outcome(st, c, raw, box, crop) ==
    [status |-> st, coordinates |-> c, raw |-> raw, box |-> box, crop |-> crop]

(* The body of the for loop, lines 46-116, for one descriptor: what it     *)
(* logs and whether it appends (status "ok").                              *)
ProcessBox(bbox, img) ==
    IF ~Recognized(bbox) THEN Outcome("unrecognized", NoCoords, NoBox, NoBox, NoCrop)
    ELSE LET c == CoordinatesOf(bbox) IN
    IF Len(c) \notin {4, 8} THEN Outcome("bad_count", c, NoBox, NoBox, NoCrop)
    ELSE IF ~bbox.numeric THEN Outcome("bad_value", c, NoBox, NoBox, NoCrop)
    ELSE LET raw == IF Len(c) = 4 THEN RawBox4(c) ELSE RawBox8(c)
             box == ClampBox(IntBox(raw), img)
         IN
    IF Degenerate(box) THEN Outcome("degenerate", c, raw, box, NoCrop)
    ELSE LET crop == CropOf(box, img) IN
    IF CropSize(crop, img) = 0 THEN Outcome("empty_crop", c, raw, box, crop)
    ELSE IF ~ConvertsToRGB(img) THEN Outcome("crop_error", c, raw, box, crop)
    ELSE Outcome("ok", c, raw, box, crop)

(* receipts.append(receipt), line 108.  A receipt is the crop it holds,    *)
(* tagged with the index of its descriptor.                                *)
AppendReceipt_PrependMutant(rs, r) == <<r>> \o rs

AppendReceipt(rs, r) == Append(rs, r)

----------------------------------------------------------------------------
(* Inputs of extract_receipts.                                             *)

Img(w, h, ch) == [loadable |-> TRUE, width |-> w, height |-> h, channels |-> ch]

(* A file Image.open() rejects, lines 30-35.                               *)
BadImage == [loadable |-> FALSE, width |-> 0, height |-> 0, channels |-> 0]

(* RGB, RGBA and greyscale pages; one narrower than the pad.               *)
Images ==
    {Img(100, 100, 3), Img(100, 100, 4), Img(130, 130, 3), Img(15, 30, 3),
     Img(100, 100, 1), BadImage}

(* Raw coordinate values: -5.5, 0, 30, 50.5 and 120 pixels (Scale = 2).    *)
WideVals == {-Px(5) - 1, 0, Px(30), Px(50) + 1, Px(120)}

(* Vertices for eight-coordinate descriptors.                              *)
WidePoints ==
    {<<Px(10), Px(20)>>, <<Px(110), Px(20)>>, <<Px(110), Px(80)>>,
     <<Px(10), Px(80)>>, <<Px(50) + 1, -Px(5)>>}

Quad(p) == <<p[1][1], p[1][2], p[2][1], p[2][2], p[3][1], p[3][2], p[4][1], p[4][2]>>

WideDescriptors ==
    {ListDesc(c) : c \in [1..4 -> WideVals]}
    \cup {ListDesc(Quad(p)) : p \in [1..4 -> WidePoints]}

PxSeq(s) == [k \in 1..Len(s) |-> Px(s[k])]

CoreDescriptors ==
    {ListDesc(PxSeq(<<0, 0, 50, 50>>)),
     ListDesc(PxSeq(<<10, 10, 50, 50>>)),
     ListDesc(PxSeq(<<30, 30, 60, 90>>)),
     ListDesc(PxSeq(<<100, 100, 20, 20>>)),
     ListDesc(PxSeq(<<40, 40, 40, 80>>)),
     ListDesc(PxSeq(<<1, 2, 3>>)),
     NonNumeric(ListDesc(PxSeq(<<30, 30, 60, 90>>))),
     OtherDesc,
     DictDesc({}, NoCoords, NoCoords, NoCoords),
     DictDesc({"coordinates"}, <<Px(25) + 1, Px(25) + 1, Px(80) + 1, Px(95) + 1>>,
              NoCoords, NoCoords),
     DictDesc({"bbox"}, NoCoords, PxSeq(<<30, 30, 20, 60>>), NoCoords),
     DictDesc({"bbox_2d"}, NoCoords, NoCoords,
              PxSeq(<<10, 20, 110, 20, 110, 80, 10, 80>>)),
     DictDesc({"coordinates", "bbox"}, PxSeq(<<30, 30, 60, 90>>),
              PxSeq(<<1, 2, 3>>), NoCoords)}

BoxLists ==
    SeqsUpTo(CoreDescriptors, MaxBoxes) \cup {<<d>> : d \in WideDescriptors}

----------------------------------------------------------------------------
(* get_bounding_boxes_from_response is idle while extract_receipts runs.   *)

(* response.choices[0].message.content: text, or None (isstr FALSE).        *)
NoContent == [isstr |-> FALSE, tokens |-> <<>>]
NoValue == [type |-> "none", items |-> <<>>, pairs |-> <<>>]
NotParsed == [raised |-> FALSE, value |-> NoValue]

ParserIdle == response_content = NoContent /\ parsed = NotParsed /\ ppc = "idle"

(* main is not running.                                                    *)
NoStatus == -1
NoEnv ==
    [api_key |-> FALSE, list_models |-> FALSE, input_exists |-> FALSE,
     extract_pages_disabled |-> FALSE, pdfs |-> <<>>]

MainIdle ==
    /\ env = NoEnv
    /\ output_pages = {}
    /\ pdf_files = <<>>
    /\ pdf_idx = 0
    /\ page_num = 0
    /\ image_files = <<>>
    /\ img_idx = 0
    /\ save_idx = 0
    /\ written = {}
    /\ events = <<>>
    /\ reported = {}
    /\ dirs_made = FALSE
    /\ failures = {}
    /\ interrupt_at = ""
    /\ exit_status = NoStatus
    /\ mpc = "idle"

----------------------------------------------------------------------------
(* extract_receipts                                                        *)

InitExtract ==
    /\ image \in Images
    /\ bounding_boxes \in BoxLists
    /\ i = 0
    /\ receipts = <<>>
    /\ log = <<>>
    /\ epc = "load"
    /\ ParserIdle
    /\ MainIdle

(* Lines 29-43: load the image; a file that does not open returns [].      *)
LoadImage ==
    /\ epc = "load"
    /\ epc' = IF image.loadable THEN "loop" ELSE "done"
    /\ i' = 1
    /\ receipts' = <<>>
    /\ UNCHANGED <<image, bounding_boxes, log, pvars, mvars>>

(* Lines 45-116: one iteration of the for loop.                            *)
ProcessNext ==
    /\ epc = "loop"
    /\ i <= Len(bounding_boxes)
    /\ LET o == ProcessBox(bounding_boxes[i], image) IN
         /\ log' = Append(log, o)
         /\ receipts' = IF o.status = "ok"
                        THEN AppendReceipt(receipts, [idx |-> i, crop |-> o.crop])
                        ELSE receipts
    /\ i' = i + 1
    /\ UNCHANGED <<image, bounding_boxes, epc, pvars, mvars>>

(* Lines 118-119: return receipts.                                         *)
ReturnReceipts ==
    /\ epc = "loop"
    /\ i > Len(bounding_boxes)
    /\ epc' = "done"
    /\ UNCHANGED <<image, bounding_boxes, i, receipts, log, pvars, mvars>>

NextExtract == LoadImage \/ ProcessNext \/ ReturnReceipts

SpecExtract == InitExtract /\ [][NextExtract]_vars

----------------------------------------------------------------------------
(* Properties of extract_receipts.                                         *)

(* The descriptor got through lines 50-92 with a box: the crop step ran.   *)
ReachedCrop(o) == o.status \in {"empty_crop", "crop_error", "ok"}

(* The descriptor was turned down for its geometry.                        *)
InvalidGeometry(o) == o.status \in {"unrecognized", "bad_count", "degenerate"}

ReceiptIdx == {receipts[a].idx : a \in 1..Len(receipts)}

(* The padded region clamped to the image.                                 *)
PaddedClamped(b, img) ==
    [rows |-> <<Max(0, b[2] - PAD), Min(img.height, b[4] + PAD)>>,
     cols |-> <<Max(0, b[1] - PAD), Min(img.width, b[3] + PAD)>>]

\* C1: every descriptor that normalizes to a box (x1,y1,x2,y2) yields the crop
\* padded by 20 pixels on every side and clamped to the image, rows
\* max(0,y1-20)..min(height,y2+20) and columns max(0,x1-20)..min(width,x2+20).
\* Stated for the colour pages (RGB, RGBA) the rasterizer writes.
C1_PaddedCropClamped ==
    (epc = "done" /\ image.loadable /\ ConvertsToRGB(image)) =>
        \A k \in 1..Len(log) :
            ReachedCrop(log[k]) =>
                \E a \in 1..Len(receipts) :
                    /\ receipts[a].idx = k
                    /\ receipts[a].crop = PaddedClamped(log[k].box, image)

\* C2: a list of N descriptors of which exactly one has invalid geometry and
\* the other N-1 normalize to valid boxes yields exactly N-1 receipts.
\* Stated for the colour pages (RGB, RGBA) the rasterizer writes.
C2_OneInvalidGivesNMinusOne ==
    (/\ epc = "done"
     /\ image.loadable
     /\ ConvertsToRGB(image)
     /\ Cardinality({k \in 1..Len(log) : InvalidGeometry(log[k])}) = 1
     /\ \A k \in 1..Len(log) : InvalidGeometry(log[k]) \/ ReachedCrop(log[k]))
    => Len(receipts) = Len(bounding_boxes) - 1

\* C3: a box with x1 >= x2 or y1 >= y2 after truncation and clamping is
\* rejected, no receipt has zero or negative area, and every box that reaches
\* the crop step satisfies 0 <= x1 < x2 <= width and 0 <= y1 < y2 <= height.
C3_DegenerateRejected ==
    /\ \A k \in 1..Len(log) :
        LET b == log[k].box IN
        /\ ReachedCrop(log[k]) =>
              /\ 0 <= b[1] /\ b[1] < b[3] /\ b[3] <= image.width
              /\ 0 <= b[2] /\ b[2] < b[4] /\ b[4] <= image.height
        /\ (/\ log[k].status \notin {"unrecognized", "bad_count", "bad_value"}
            /\ (b[1] >= b[3] \/ b[2] >= b[4]))
           => (log[k].status = "degenerate" /\ k \notin ReceiptIdx)
    /\ \A a \in 1..Len(receipts) :
        /\ receipts[a].crop.rows[1] < receipts[a].crop.rows[2]
        /\ receipts[a].crop.cols[1] < receipts[a].crop.cols[2]

C3_Witness ==
    /\ epc = "done"
    /\ Len(receipts) >= 1
    /\ \E k \in 1..Len(log) :
        /\ log[k].status = "degenerate"
        /\ log[k].box[1] = log[k].box[3]
        /\ log[k].raw[3] > log[k].raw[1]

(* The four-coordinate reading as the specification words it.              *)
Expected4(c) ==
    IF c[3] >= c[1] /\ c[4] >= c[2]
    THEN <<c[1], c[2], c[3], c[4]>>
    ELSE <<c[1], c[2], c[1] + c[3], c[2] + c[4]>>

HasRaw(o) == o.status \notin {"unrecognized", "bad_count", "bad_value"}

\* C4: a 4-coordinate descriptor (x1,y1,a,b) gives the box (x1,y1,a,b) when
\* a >= x1 and b >= y1, and (x1,y1,x1+a,y1+b) when a < x1 or b < y1;
\* [10,10,50,50] gives (10,10,50,50) and [100,100,20,20] gives (100,100,120,120).
C4_FourCoordinates ==
    \A k \in 1..Len(log) :
        LET c == log[k].coordinates IN
        (Len(c) = 4 /\ bounding_boxes[k].numeric) =>
            /\ HasRaw(log[k])
            /\ log[k].raw = Expected4(c)
            /\ c = PxSeq(<<10, 10, 50, 50>>) => log[k].raw = PxSeq(<<10, 10, 50, 50>>)
            /\ c = PxSeq(<<100, 100, 20, 20>>) =>
                   log[k].raw = PxSeq(<<100, 100, 120, 120>>)

C4_Witness ==
    /\ \E k \in 1..Len(log) :
        /\ log[k].coordinates = PxSeq(<<30, 30, 20, 60>>)
        /\ log[k].raw = PxSeq(<<30, 30, 50, 90>>)
    /\ \E k \in 1..Len(log) :
        /\ log[k].coordinates = PxSeq(<<100, 100, 20, 20>>)
        /\ log[k].raw = PxSeq(<<100, 100, 120, 120>>)
    /\ \E k \in 1..Len(log) :
        /\ log[k].coordinates = PxSeq(<<10, 10, 50, 50>>)
        /\ log[k].raw = PxSeq(<<10, 10, 50, 50>>)

SetMin(S) == CHOOSE m \in S : \A x \in S : m <= x
SetMax(S) == CHOOSE m \in S : \A x \in S : m >= x

\* C5: an 8-coordinate descriptor gives the axis-aligned bounding rectangle
\* (min x, min y, max x, max y) of its four vertices, whatever their order;
\* [10,20,110,20,110,80,10,80] gives (10,20,110,80); a descriptor whose
\* coordinate count is neither 4 nor 8 is rejected.
C5_EightCoordinates ==
    \A k \in 1..Len(log) :
        LET c == log[k].coordinates
            xs == {c[1], c[3], c[5], c[7]}
            ys == {c[2], c[4], c[6], c[8]}
        IN
        /\ (Len(c) = 8 /\ bounding_boxes[k].numeric) =>
              /\ HasRaw(log[k])
              /\ log[k].raw = <<SetMin(xs), SetMin(ys), SetMax(xs), SetMax(ys)>>
              /\ c = PxSeq(<<10, 20, 110, 20, 110, 80, 10, 80>>) =>
                     log[k].raw = PxSeq(<<10, 20, 110, 80>>)
        /\ (Recognized(bounding_boxes[k]) /\ Len(CoordinatesOf(bounding_boxes[k])) \notin {4, 8})
              => (~ReachedCrop(log[k]) /\ k \notin ReceiptIdx)

C5_Witness ==
    /\ epc = "done"
    /\ \E k \in 1..Len(log) :
        /\ log[k].coordinates = PxSeq(<<110, 80, 10, 20, 10, 80, 110, 20>>)
        /\ log[k].raw = PxSeq(<<10, 20, 110, 80>>)
        /\ log[k].status = "ok"

C5_WitnessB ==
    /\ epc = "done"
    /\ \E k \in 1..Len(log) : Len(log[k].coordinates) = 3

\* C8: the returned list keeps the input order (for descriptors i < j that both
\* produce a receipt, the receipt of i precedes the receipt of j) and has
\* exactly one entry per accepted descriptor, with no placeholder for a
\* rejected one.
C8_OrderPreserved ==
    /\ \A a, b \in 1..Len(receipts) : a < b => receipts[a].idx < receipts[b].idx
    /\ ReceiptIdx \subseteq 1..(i - 1)
    /\ epc = "done" =>
        LET accepted == {k \in 1..Len(bounding_boxes) :
                            image.loadable /\
                            ProcessBox(bounding_boxes[k], image).status = "ok"}
        IN  /\ ReceiptIdx = accepted
            /\ Len(receipts) = Cardinality(accepted)

C8_Witness ==
    /\ epc = "done"
    /\ Len(bounding_boxes) = 3
    /\ Len(receipts) = 2
    /\ receipts[1].idx = 1
    /\ receipts[2].idx = 3

----------------------------------------------------------------------------
(* get_bounding_boxes_from_response                                        *)
(*                                                                         *)
(* A decoded JSON value is [type, items, pairs]: a list holds its elements *)
(* in items, a string its characters (each one a descriptor of kind        *)
(* "other" to whoever iterates it), a mapping its entries in pairs, in     *)
(* the order of the text, which is the order data.items() yields.          *)

JList(xs) == [type |-> "list", items |-> xs, pairs |-> <<>>]
JStr(n) == [type |-> "str", items |-> [k \in 1..n |-> OtherDesc], pairs |-> <<>>]
JNum == [type |-> "num", items |-> <<>>, pairs |-> <<>>]
JNull == [type |-> "null", items |-> <<>>, pairs |-> <<>>]
JDict(ps) == [type |-> "dict", items |-> <<>>, pairs |-> ps]
Entry(k, v) == [key |-> k, value |-> v]

EmptyList == JList(<<>>)

(* len(): defined for lists, strings and mappings; TypeError otherwise.    *)
HasLen(v) == v.type \in {"list", "str", "dict"}
PyLen(v) == IF v.type = "dict" THEN Len(v.pairs) ELSE Len(v.items)

(* The response text as tokens: "prose" (text that is not JSON), "ws"      *)
(* (whitespace), "open" (```json), "close" (```) and "json" (the text of   *)
(* the JSON value val).                                                    *)
Tok(t) == [tok |-> t, val |-> NoValue]
JsonTok(v) == [tok |-> "json", val |-> v]

(* re.search(r'```json\s*([\s\S]*?)\s*```'), line 184: the first ```json   *)
(* with a ``` after it; the lazy group ends at the first such ```, which   *)
(* may be the first three characters of a later ```json.                   *)
IsFence(t) == t.tok \in {"open", "close"}

FenceStarts(ts) ==
    {a \in 1..Len(ts) : ts[a].tok = "open" /\ \E b \in (a + 1)..Len(ts) : IsFence(ts[b])}

FenceMatches(ts) == FenceStarts(ts) # {}

FenceGroup(ts) ==
    LET a == CHOOSE x \in FenceStarts(ts) : \A y \in FenceStarts(ts) : x <= y
        ends == {b \in (a + 1)..Len(ts) : IsFence(ts[b])}
        b == CHOOSE x \in ends : \A y \in ends : x <= y
    IN  SubSeq(ts, a + 1, b - 1)

(* Lines 185-190: the candidate payload.                                   *)
JsonStr(ts) == IF FenceMatches(ts) THEN FenceGroup(ts) ELSE ts

(* str.strip(), line 194.                                                  *)
RECURSIVE LStrip(_)
LStrip(ts) ==
    IF ts # <<>> /\ ts[1].tok = "ws" THEN LStrip(Tail(ts)) ELSE ts

RECURSIVE RStrip(_)
RStrip(ts) ==
    IF ts # <<>> /\ ts[Len(ts)].tok = "ws" THEN RStrip(SubSeq(ts, 1, Len(ts) - 1)) ELSE ts

Strip(ts) == RStrip(LStrip(ts))

(* json.loads, line 198: the text must be exactly one JSON value.          *)
Decodable(ts) == Len(ts) = 1 /\ ts[1].tok = "json"
Decoded(ts) == ts[1].val

(* "key in data", data[key].                                               *)
HasKey(d, k) == \E j \in 1..Len(d.pairs) : d.pairs[j].key = k

RECURSIVE Lookup(_, _)
Lookup(ps, k) == IF ps[1].key = k THEN ps[1].value ELSE Lookup(Tail(ps), k)

(* Lines 205-210: which named key is served, "" when neither is present.   *)
PreferredKey_ReceiptsFirst(d) ==
    IF HasKey(d, "receipts") THEN "receipts"
    ELSE IF HasKey(d, "bounding_boxes") THEN "bounding_boxes"
    ELSE ""

PreferredKey(d) ==
    IF HasKey(d, "bounding_boxes") THEN "bounding_boxes"
    ELSE IF HasKey(d, "receipts") THEN "receipts"
    ELSE ""

(* Lines 213-219: the first non-empty list among the values, else [].      *)
RECURSIVE ScanValues(_)
ScanValues(ps) ==
    IF ps = <<>> THEN EmptyList
    ELSE IF ps[1].value.type = "list" /\ Len(ps[1].value.items) > 0 THEN ps[1].value
    ELSE ScanValues(Tail(ps))

Returned(v) == [raised |-> FALSE, value |-> v]
Raised == [raised |-> TRUE, value |-> NoValue]

(* Lines 201-222: the decoded value to the result.  The debug lines 206    *)
(* and 209 evaluate len() of the value before it is returned.              *)
SelectBoxes(data) ==
    IF data.type = "list" THEN Returned(data)
    ELSE IF data.type = "dict" THEN
        LET k == PreferredKey(data) IN
        IF k = "" THEN Returned(ScanValues(data.pairs))
        ELSE IF HasLen(Lookup(data.pairs, k)) THEN Returned(Lookup(data.pairs, k))
        ELSE Raised
    ELSE Returned(EmptyList)

(* Lines 181-227, inside the outer try.                                    *)
ParseBody(rc) ==
    IF ~rc.isstr THEN Raised
    ELSE LET json_str == Strip(JsonStr(rc.tokens)) IN
         IF Decodable(json_str) THEN SelectBoxes(Decoded(json_str))
         ELSE Returned(EmptyList)

(* Lines 229-232: except Exception: return [].                             *)
CatchAll_Reraise(r) == r

CatchAll(r) == IF r.raised THEN Returned(EmptyList) ELSE r

GetBoundingBoxesFromResponse(rc) == CatchAll(ParseBody(rc))

----------------------------------------------------------------------------
(* Inputs of get_bounding_boxes_from_response.                             *)

GoodDesc == ListDesc(PxSeq(<<30, 30, 60, 90>>))

LeafVals ==
    {EmptyList, JList(<<GoodDesc>>), JList(<<OtherDesc, GoodDesc>>), JStr(2), JNum,
     JNull, JDict(<<Entry("x", JNum)>>)}

Keys == {"bounding_boxes", "receipts", "boxes", "page"}

Entries == {Entry(k, v) : k \in Keys, v \in LeafVals}

DistinctKeys(ps) == \A a, b \in 1..Len(ps) : a # b => ps[a].key # ps[b].key

Dicts == {JDict(ps) : ps \in {q \in SeqsUpTo(Entries, MaxKeys) : DistinctKeys(q)}}

Payloads ==
    Dicts \cup {EmptyList, JList(<<GoodDesc>>), JList(<<OtherDesc, GoodDesc>>),
                JStr(2), JNum, JNull}

CorePayloads ==
    {JList(<<GoodDesc>>), JNum,
     JDict(<<Entry("receipts", JList(<<GoodDesc>>)),
             Entry("bounding_boxes", JList(<<OtherDesc, GoodDesc>>))>>)}

(* A frame is the text around the payload; "slot" is where the payload is. *)
Symbols == {"prose", "ws", "open", "close", "slot"}

Fill(f, v) == [k \in 1..Len(f) |-> IF f[k] = "slot" THEN JsonTok(v) ELSE Tok(f[k])]

TypicalFrames ==
    {<<"slot">>, <<"open", "slot", "close">>,
     <<"prose", "open", "ws", "slot", "ws", "close", "prose">>}

Text(ts) == [isstr |-> TRUE, tokens |-> ts]

Responses ==
    {Text(Fill(f, v)) : f \in TypicalFrames, v \in Payloads}
    \cup {Text(Fill(f, v)) : f \in SeqsUpTo(Symbols, MaxTokens), v \in CorePayloads}
    \cup {NoContent}

ExtractorIdle ==
    /\ image = BadImage
    /\ bounding_boxes = <<>>
    /\ i = 0
    /\ receipts = <<>>
    /\ log = <<>>
    /\ epc = "idle"

InitParse ==
    /\ response_content \in Responses
    /\ parsed = NotParsed
    /\ ppc = "call"
    /\ ExtractorIdle
    /\ MainIdle

(* Lines 170-232: the call, to its return.                                 *)
CallParser ==
    /\ ppc = "call"
    /\ parsed' = GetBoundingBoxesFromResponse(response_content)
    /\ ppc' = "done"
    /\ UNCHANGED <<response_content, xvars, mvars>>

NextParse == CallParser

SpecParse == InitParse /\ [][NextParse]_vars

----------------------------------------------------------------------------
(* Properties of get_bounding_boxes_from_response.                         *)

(* The response decodes, and to what.                                      *)
Decodes == response_content.isstr /\ Decodable(Strip(JsonStr(response_content.tokens)))
Data == Decoded(Strip(JsonStr(response_content.tokens)))

DecodesToDict == Decodes /\ Data.type = "dict"

ValueAt(d, k) == (CHOOSE e \in {d.pairs[j] : j \in 1..Len(d.pairs)} : e.key = k).value

(* What a present key gives: its value when len() takes it, else [].       *)
Served(v) == IF HasLen(v) THEN v ELSE EmptyList

\* C6 (as claimed): when the decoded mapping has both keys bounding_boxes and
\* receipts, the function returns the value of bounding_boxes.
C6_BoundingBoxesValueReturned ==
    (/\ ppc = "done"
     /\ DecodesToDict
     /\ HasKey(Data, "bounding_boxes")
     /\ HasKey(Data, "receipts"))
    => (~parsed.raised /\ parsed.value = ValueAt(Data, "bounding_boxes"))

\* C6 (amended): when the decoded mapping has the key bounding_boxes (with or
\* without receipts) the result is decided by the value of bounding_boxes alone:
\* that value when it is a list, string or mapping, and the empty list when it
\* is a number or null; receipts decides the result in the same way only when
\* bounding_boxes is absent; the first non-empty list among the values is
\* returned only when both keys are absent.
C6_KeyPrecedence ==
    (ppc = "done" /\ DecodesToDict) =>
        /\ ~parsed.raised
        /\ HasKey(Data, "bounding_boxes") =>
               parsed.value = Served(ValueAt(Data, "bounding_boxes"))
        /\ (~HasKey(Data, "bounding_boxes") /\ HasKey(Data, "receipts")) =>
               parsed.value = Served(ValueAt(Data, "receipts"))
        /\ (~HasKey(Data, "bounding_boxes") /\ ~HasKey(Data, "receipts")) =>
               LET hits == {j \in 1..Len(Data.pairs) :
                               /\ Data.pairs[j].value.type = "list"
                               /\ Data.pairs[j].value.items # <<>>}
               IN  IF hits = {} THEN parsed.value = EmptyList
                   ELSE parsed.value =
                            Data.pairs[CHOOSE j \in hits : \A h \in hits : j <= h].value

C6_Witness ==
    /\ ppc = "done"
    /\ DecodesToDict
    /\ HasKey(Data, "bounding_boxes")
    /\ HasKey(Data, "receipts")
    /\ Data.pairs[1].key = "receipts"
    /\ ValueAt(Data, "receipts") = JList(<<GoodDesc>>)
    /\ ValueAt(Data, "bounding_boxes") = JList(<<OtherDesc, GoodDesc>>)
    /\ parsed.value = JList(<<OtherDesc, GoodDesc>>)

\* C7: the function never raises to its caller, and for an undecodable payload
\* (inside or outside a json fence), a decoded scalar, or any failure inside
\* the function the result is the empty list.
C7_NeverRaises ==
    ppc = "done" =>
        /\ ~parsed.raised
        /\ (\/ ~Decodes
            \/ Data.type \notin {"list", "dict"}
            \/ ParseBody(response_content).raised)
           => parsed.value = EmptyList

C7_Witness ==
    /\ ppc = "done"
    /\ ParseBody(response_content).raised
    /\ DecodesToDict
    /\ parsed = Returned(EmptyList)

C7_WitnessFence ==
    /\ ppc = "done"
    /\ response_content.isstr
    /\ FenceMatches(response_content.tokens)
    /\ ~Decodes
    /\ parsed = Returned(EmptyList)

\* C13: for every response text the value get_bounding_boxes_from_response
\* returns is a list, also when the bounding_boxes or receipts key of the
\* decoded mapping holds a string, a mapping, a number or null.
C13_ResultIsList ==
    ppc = "done" => (~parsed.raised /\ parsed.value.type = "list")

----------------------------------------------------------------------------
(* main                                                                    *)

(* extract_receipts as one call, lines 26-124: the list it returns.        *)
RECURSIVE ExtractFrom(_, _, _, _)
ExtractFrom(boxes, img, k, rs) ==
    IF k > Len(boxes) THEN rs
    ELSE LET o == ProcessBox(boxes[k], img) IN
         ExtractFrom(boxes, img, k + 1,
                     IF o.status = "ok"
                     THEN AppendReceipt(rs, [idx |-> k, crop |-> o.crop])
                     ELSE rs)

ExtractReceipts(img, boxes) ==
    IF img.loadable THEN ExtractFrom(boxes, img, 1, <<>>) ELSE <<>>

(* What iterating the parser's result yields: the elements of a list, the  *)
(* characters of a string, the keys of a mapping.                          *)
IterItems(v) == IF v.type = "dict" THEN [k \in 1..Len(v.pairs) |-> OtherDesc] ELSE v.items

(* "if bounding_boxes:", line 140.                                         *)
Truthy(v) == HasLen(v) /\ PyLen(v) > 0

(* "if not api_key", line 53.                                              *)
HasCredential_Always(e) == TRUE

HasCredential(e) == e.api_key

(* The order of the steps of one page, lines 116-148.                      *)
NextStep_ParseFirst(step) ==
    CASE step = "read" -> "parse"
      [] step = "parse" -> "request"
      [] step = "request" -> "extract"
      [] step = "extract" -> "save"

NextStep(step) ==
    CASE step = "read" -> "request"
      [] step = "request" -> "parse"
      [] step = "parse" -> "extract"
      [] step = "extract" -> "save"

(* sys.exit(main()), line 171: an exception that leaves main ends the      *)
(* interpreter with status 1.                                              *)
UncaughtStatus == 1

Event(st, f) == [step |-> st, file |-> f]

(* A page file is <<PDF, page>>: <<p, n>> is page n of the p-th PDF of the *)
(* input folder, <<0, n>> an image that no PDF of this run produces.       *)
PreFiles == {<<0, 1>>}

RECURSIVE Sum(_)
Sum(s) == IF s = <<>> THEN 0 ELSE s[1] + Sum(Tail(s))

(* The input folder: PDFs by page count.                                   *)
PdfLists == {s \in SeqsUpTo(1..MaxPages, MaxPages) : Sum(s) <= MaxPages}

(* os.listdir gives the names in arbitrary order.                          *)
Listings(S) ==
    {s \in [1..Cardinality(S) -> S] : \A a, b \in 1..Cardinality(S) : a # b => s[a] # s[b]}

(* Model responses and page images met by main.                            *)
MainResponses ==
    {Text(Fill(<<"open", "slot", "close">>, JList(<<GoodDesc, OtherDesc, GoodDesc>>))),
     Text(Fill(<<"slot">>, JDict(<<Entry("receipts", JList(<<GoodDesc>>))>>))),
     Text(Fill(<<"slot">>, EmptyList)),
     Text(<<Tok("prose")>>),
     NoContent}

MainImages == {Img(130, 130, 3), Img(100, 100, 1), BadImage}

InitMain ==
    /\ env \in {e \in [api_key : BOOLEAN, list_models : BOOLEAN, input_exists : BOOLEAN,
                       extract_pages_disabled : BOOLEAN, pdfs : PdfLists] :
                   e.input_exists \/ e.pdfs = <<>>}
    /\ output_pages \in {S \in SUBSET PreFiles : Cardinality(S) + Sum(env.pdfs) <= MaxPages}
    /\ pdf_files = <<>>
    /\ pdf_idx = 0
    /\ page_num = 0
    /\ image_files = <<>>
    /\ img_idx = 0
    /\ save_idx = 0
    /\ written = {}
    /\ events = <<>>
    /\ reported = {}
    /\ dirs_made = FALSE
    /\ failures = {}
    /\ interrupt_at = ""
    /\ exit_status = NoStatus
    /\ mpc = "makedirs"
    /\ ExtractorIdle
    /\ ParserIdle

Finish(status) == mpc' = "done" /\ exit_status' = status

Goto(pc) == mpc' = pc /\ exit_status' = exit_status

loopvars == <<pdf_files, pdf_idx, page_num, image_files, img_idx, save_idx>>

(* Lines 46-48, before the try: os.makedirs for both output folders.       *)
MakeDirs ==
    /\ mpc = "makedirs"
    /\ \/ dirs_made' = TRUE /\ Goto("credential")
       \/ dirs_made' = FALSE /\ Finish(UncaughtStatus)
    /\ UNCHANGED <<env, output_pages, loopvars, written, events, reported, failures,
                   interrupt_at, xvars, pvars>>

(* Lines 52-61: the credential.                                            *)
CheckCredential ==
    /\ mpc = "credential"
    /\ IF HasCredential(env)
       THEN /\ Goto(IF env.list_models THEN "list_models" ELSE "check_input")
            /\ reported' = reported
       ELSE /\ Finish(1)
            /\ reported' = reported \cup {"LLM_VENICE_KEY environment variable not set"}
    /\ UNCHANGED <<env, output_pages, loopvars, written, events, dirs_made, failures,
                   interrupt_at, xvars, pvars>>

(* Lines 64-72: --list_models.                                             *)
ListModels ==
    /\ mpc = "list_models"
    /\ \/ Finish(0) /\ reported' = reported
       \/ Finish(1) /\ reported' = reported \cup {"Failed to list models"}
    /\ UNCHANGED <<env, output_pages, loopvars, written, events, dirs_made, failures,
                   interrupt_at, xvars, pvars>>

(* Lines 80-82: the input folder.                                          *)
CheckInputFolder ==
    /\ mpc = "check_input"
    /\ IF env.input_exists
       THEN /\ Goto(IF env.extract_pages_disabled THEN "list_images" ELSE "list_pdfs")
            /\ reported' = reported
       ELSE /\ Finish(1)
            /\ reported' = reported \cup {"Input folder does not exist"}
    /\ UNCHANGED <<env, output_pages, loopvars, written, events, dirs_made, failures,
                   interrupt_at, xvars, pvars>>

(* Lines 86-88: os.listdir of the input folder; an error goes to line 165. *)
ListPdfs ==
    /\ mpc = "list_pdfs"
    /\ \/ /\ pdf_files' = env.pdfs
          /\ pdf_idx' = 1
          /\ Goto("open_pdf")
          /\ reported' = reported
       \/ /\ UNCHANGED <<pdf_files, pdf_idx>>
          /\ Finish(1)
          /\ reported' = reported \cup {"Unhandled exception"}
    /\ UNCHANGED <<env, output_pages, page_num, image_files, img_idx, save_idx, written,
                   events, dirs_made, failures, interrupt_at, xvars, pvars>>

(* Lines 96-97 and pdf2img.py lines 141-143: the error of one PDF is       *)
(* logged and the loop of line 90 goes on with the next PDF.               *)
PdfFailed(p) ==
    /\ failures' = failures \cup {Event("open_pdf", <<p, 0>>)}
    /\ pdf_idx' = p + 1
    /\ Goto("open_pdf")
    /\ UNCHANGED page_num

(* Lines 90-97 with pdf2img.py lines 16-48 and 135-148: the next PDF.  The *)
(* constructor may raise (caught at line 96) and fitz.open may fail        *)
(* (convert_all_pages_to_png returns []); either way the PDF is skipped.   *)
OpenPdf ==
    /\ mpc = "open_pdf"
    /\ IF pdf_idx > Len(pdf_files)
       THEN Goto("list_images") /\ UNCHANGED <<pdf_idx, page_num, failures>>
       ELSE \/ page_num' = 1 /\ Goto("convert_page") /\ UNCHANGED <<pdf_idx, failures>>
            \/ PdfFailed(pdf_idx)
    /\ UNCHANGED <<env, output_pages, pdf_files, image_files, img_idx, save_idx, written,
                   events, reported, dirs_made, interrupt_at, xvars, pvars>>

(* pdf2img.py lines 152-158 with convert_page_to_png, lines 50-126: one    *)
(* page is rendered and saved, or fails and gives None.                    *)
ConvertPage ==
    /\ mpc = "convert_page"
    /\ IF page_num > pdf_files[pdf_idx]
       THEN /\ pdf_idx' = pdf_idx + 1
            /\ Goto("open_pdf")
            /\ UNCHANGED <<page_num, output_pages, events, failures>>
       ELSE /\ events' = Append(events, Event("rasterize", <<pdf_idx, page_num>>))
            /\ page_num' = page_num + 1
            /\ Goto("convert_page")
            /\ UNCHANGED pdf_idx
            /\ \/ /\ output_pages' = output_pages \cup {<<pdf_idx, page_num>>}
                  /\ failures' = failures
               \/ /\ output_pages' = output_pages
                  /\ failures' = failures \cup {Event("rasterize", <<pdf_idx, page_num>>)}
    /\ UNCHANGED <<env, pdf_files, image_files, img_idx, save_idx, written, reported,
                   dirs_made, interrupt_at, xvars, pvars>>

(* Lines 100-107: the page images to work on.                              *)
ListImages ==
    /\ mpc = "list_images"
    /\ \/ /\ image_files' \in Listings(output_pages)
          /\ img_idx' = 1
          /\ IF output_pages = {} THEN Finish(0) ELSE Goto("read")
          /\ reported' = reported
       \/ /\ UNCHANGED <<image_files, img_idx>>
          /\ Finish(1)
          /\ reported' = reported \cup {"Unhandled exception"}
    /\ UNCHANGED <<env, output_pages, pdf_files, pdf_idx, page_num, save_idx, written,
                   events, dirs_made, failures, interrupt_at, xvars, pvars>>

(* The locals of one iteration of the loop of line 110.                    *)
PageLocalsReset ==
    /\ response_content' = NoContent
    /\ parsed' = NotParsed
    /\ image' = BadImage
    /\ bounding_boxes' = <<>>
    /\ i' = 0
    /\ receipts' = <<>>
    /\ log' = <<>>

(* The iteration ends (its last statement, line 151, or a handler of lines *)
(* 153-158); after the last page main returns 0, line 160.                 *)
AdvancePage ==
    /\ img_idx' = img_idx + 1
    /\ save_idx' = 0
    /\ IF img_idx + 1 > Len(image_files) THEN Finish(0) ELSE Goto("read")
    /\ PageLocalsReset

CurrentFile == image_files[img_idx]

(* The page ends without an error of its own.                              *)
PageDone == AdvancePage /\ failures' = failures

(* Lines 153-158: an exception of a step of the page is logged and the     *)
(* loop of line 110 goes on with the next page.                            *)
PageFailed_Abort(step) ==
    /\ failures' = failures \cup {Event(step, CurrentFile)}
    /\ Finish(1)
    /\ UNCHANGED <<img_idx, save_idx>>
    /\ PageLocalsReset

PageFailed(step) ==
    /\ failures' = failures \cup {Event(step, CurrentFile)}
    /\ AdvancePage

(* An error the parser contains and logs (extract_receipts.py lines        *)
(* 224-232): content that is no text, an undecodable payload, len() of a   *)
(* number or null.                                                         *)
ParseFailed(rc) ==
    \/ ~rc.isstr
    \/ ~Decodable(Strip(JsonStr(rc.tokens)))
    \/ ParseBody(rc).raised

pagefixed == <<env, output_pages, pdf_files, pdf_idx, page_num, image_files, written,
               reported, dirs_made, interrupt_at, epc, ppc>>

(* Lines 116-117: read the page image.                                     *)
ReadImage ==
    /\ mpc = "read"
    /\ events' = Append(events, Event("read", CurrentFile))
    /\ \/ /\ Goto(NextStep("read"))
          /\ UNCHANGED <<img_idx, save_idx, response_content, parsed, image,
                         bounding_boxes, i, receipts, log, failures>>
       \/ PageFailed("read")
    /\ UNCHANGED pagefixed

(* Lines 120-132: build the request and call the model.                    *)
SendRequest ==
    /\ mpc = "request"
    /\ events' = Append(events, Event("request", CurrentFile))
    /\ \/ /\ response_content' \in MainResponses
          /\ Goto(NextStep("request"))
          /\ UNCHANGED <<img_idx, save_idx, parsed, image, bounding_boxes, i, receipts,
                         log, failures>>
       \/ PageFailed("request")
    /\ UNCHANGED pagefixed

(* Lines 136-140 and 150-151: take the content out of the response (which  *)
(* may raise) and parse it; an empty result ends the page.                 *)
ParseResponse ==
    /\ mpc = "parse"
    /\ events' = Append(events, Event("parse", CurrentFile))
    /\ \/ LET r == GetBoundingBoxesFromResponse(response_content) IN
          IF ~r.raised /\ Truthy(r.value)
          THEN /\ parsed' = r
               /\ Goto(NextStep("parse"))
               /\ UNCHANGED <<img_idx, save_idx, response_content, image,
                              bounding_boxes, i, receipts, log, failures>>
          ELSE IF r.raised \/ ParseFailed(response_content)
               THEN PageFailed("parse")
               ELSE PageDone
       \/ PageFailed("parse")
    /\ UNCHANGED pagefixed

(* Line 142: extract_receipts(image_path, bounding_boxes); an image that   *)
(* does not open is logged there (line 34) and gives no receipts.          *)
ExtractPage ==
    /\ mpc = "extract"
    /\ events' = Append(events, Event("extract", CurrentFile))
    /\ \E img \in MainImages :
        /\ image' = img
        /\ bounding_boxes' = IterItems(parsed.value)
        /\ receipts' = ExtractReceipts(img, IterItems(parsed.value))
        /\ log' = IF img.loadable
                  THEN [k \in 1..Len(IterItems(parsed.value)) |->
                           ProcessBox(IterItems(parsed.value)[k], img)]
                  ELSE <<>>
        /\ i' = Len(IterItems(parsed.value)) + 1
        /\ failures' = IF img.loadable THEN failures
                       ELSE failures \cup {Event("extract", CurrentFile)}
    /\ save_idx' = 1
    /\ Goto(NextStep("extract"))
    /\ UNCHANGED <<img_idx, response_content, parsed>>
    /\ UNCHANGED pagefixed

(* Lines 145-149: save the next receipt; a failed save ends the page.      *)
SaveReceipt ==
    /\ mpc = "save"
    /\ IF save_idx > Len(receipts)
       THEN PageDone /\ UNCHANGED <<events, written>>
       ELSE /\ events' = Append(events, Event("persist", CurrentFile))
            /\ \/ /\ written' = written \cup {<<CurrentFile, save_idx>>}
                  /\ save_idx' = save_idx + 1
                  /\ Goto("save")
                  /\ UNCHANGED <<img_idx, response_content, parsed, image,
                                 bounding_boxes, i, receipts, log, failures>>
               \/ PageFailed("persist") /\ UNCHANGED written
    /\ UNCHANGED <<env, output_pages, pdf_files, pdf_idx, page_num, image_files,
                   reported, dirs_made, interrupt_at, epc, ppc>>

(* The positions inside the try of lines 50-167, and those of the page     *)
(* loop, which the handlers of lines 153-158 cover.                        *)
TryPcs ==
    {"credential", "list_models", "check_input", "list_pdfs", "open_pdf",
     "convert_page", "list_images", "read", "request", "parse", "extract", "save"}

PagePcs == {"read", "request", "parse", "extract", "save"}

InTry == mpc \in TryPcs

(* Whether a handler inside the try body takes a KeyboardInterrupt raised  *)
(* at pc.  Every one of them is "except Exception" (main.py lines 70, 96,  *)
(* 153-158; extract_receipts.py lines 33, 94, 110, 114, 121, 224, 229;     *)
(* pdf2img.py lines 71, 114, 123, 141, 160, 169) and KeyboardInterrupt is  *)
(* no Exception, so none does.                                             *)
HandlerTakesInterrupt_PageHandler(pc) == pc \in PagePcs

HandlerTakesInterrupt(pc) == FALSE

(* Lines 162-164: a KeyboardInterrupt inside the try ends main with 130.   *)
Interrupt ==
    /\ InTry
    /\ interrupt_at' = mpc
    /\ IF HandlerTakesInterrupt(mpc)
       THEN /\ PageFailed("interrupt")
            /\ reported' = reported
            /\ UNCHANGED <<env, output_pages, pdf_files, pdf_idx, page_num, image_files,
                           written, events, dirs_made, epc, ppc>>
       ELSE /\ Finish(130)
            /\ reported' = reported \cup {"Process interrupted by user"}
            /\ UNCHANGED <<env, output_pages, loopvars, written, events, dirs_made,
                           failures, xvars, pvars>>

(* A KeyboardInterrupt during lines 27-48, before the try: it leaves main  *)
(* uncaught, and the interpreter ends with 130 (it kills itself with       *)
(* SIGINT, Python 3.8 and later) or with 1 (earlier versions).             *)
InterruptBeforeTry ==
    /\ mpc = "makedirs"
    /\ interrupt_at' = mpc
    /\ \E status \in {UncaughtStatus, 130} : Finish(status)
    /\ UNCHANGED <<env, output_pages, loopvars, written, events, reported, dirs_made,
                   failures, xvars, pvars>>

NextMain ==
    \/ MakeDirs
    \/ CheckCredential
    \/ ListModels
    \/ CheckInputFolder
    \/ ListPdfs
    \/ OpenPdf
    \/ ConvertPage
    \/ ListImages
    \/ ReadImage
    \/ SendRequest
    \/ ParseResponse
    \/ ExtractPage
    \/ SaveReceipt
    \/ Interrupt
    \/ InterruptBeforeTry

SpecMain == InitMain /\ [][NextMain]_vars

----------------------------------------------------------------------------
(* Properties of main.                                                     *)

\* C9 (as claimed): each page is processed fully (rasterize, model call, parse,
\* extract, persist) before any step of the next page begins: once a step of
\* another page has happened, no step of an earlier page follows.
C9_PagesNeverOverlap ==
    \A a, b, c \in 1..Len(events) :
        (a < b /\ b < c /\ events[a].file = events[c].file) =>
            events[b].file = events[a].file

PageStep(e) == e.step # "rasterize"

\* C9 (amended): all rasterization (every page of every PDF) is finished before
\* the first page is read or sent to the model; from then on each page is
\* processed fully (read, model call, parse, extract, persist, in this order)
\* before any step of the next page begins, and no page is taken up twice.
C9_RasterizeThenPageByPage ==
    \A b \in 1..Len(events) :
        LET e == events[b] IN
        /\ e.step = "rasterize" => \A a \in 1..(b - 1) : events[a].step = "rasterize"
        /\ e.step = "read" =>
              \A a \in 1..(b - 1) : PageStep(events[a]) => events[a].file # e.file
        /\ e.step = "request" => (b > 1 /\ events[b - 1] = Event("read", e.file))
        /\ e.step = "parse" => (b > 1 /\ events[b - 1] = Event("request", e.file))
        /\ e.step = "extract" => (b > 1 /\ events[b - 1] = Event("parse", e.file))
        /\ e.step = "persist" =>
              (b > 1 /\ events[b - 1] \in {Event("extract", e.file), Event("persist", e.file)})

C9_Witness ==
    /\ Len(events) >= 8
    /\ events[1].step = "rasterize"
    /\ events[2].step = "rasterize"
    /\ events[3].step = "read"
    /\ \E b \in 1..(Len(events) - 1) :
        /\ events[b].step = "persist"
        /\ events[b + 1].step = "read"
        /\ events[b + 1].file # events[b].file

\* C10: when the API credential is absent, main reports the error and returns
\* exit status 1 before any processing begins: no page is rasterized, no model
\* request is sent and no receipt is written in that run.  (A run the user
\* interrupts first ends with 130; a run whose os.makedirs fails ends with
\* status 1 before the credential is looked at.)
C10_NoCredentialNoProcessing ==
    (mpc # "idle" /\ ~env.api_key) =>
        /\ events = <<>>
        /\ written = {}
        /\ output_pages \subseteq PreFiles
        /\ mpc \in {"makedirs", "credential", "done"}
        /\ (mpc = "done" /\ exit_status # 130) =>
              /\ exit_status = 1
              /\ dirs_made => reported = {"LLM_VENICE_KEY environment variable not set"}

C10_Witness ==
    /\ ~env.api_key
    /\ env.input_exists
    /\ env.pdfs # <<>>
    /\ mpc = "done"
    /\ dirs_made
    /\ exit_status = 1
    /\ reported = {"LLM_VENICE_KEY environment variable not set"}
    /\ events = <<>>

(* The run came to its end by itself: no interrupt, and no error outside   *)
(* the two loops (os.listdir, lines 86 and 104, goes to line 165).         *)
RanToEnd ==
    /\ mpc = "done"
    /\ interrupt_at = ""
    /\ "Unhandled exception" \notin reported

PdfTaken(p) ==
    \/ Event("open_pdf", <<p, 0>>) \in failures
    \/ \A n \in 1..pdf_files[p] : \E b \in 1..Len(events) :
           events[b] = Event("rasterize", <<p, n>>)

PageTaken(k) == \E b \in 1..Len(events) : events[b] = Event("read", image_files[k])

\* C11: a failure while processing one page (reading the image file, the
\* model call, parsing, extraction, saving a receipt) or while converting one
\* PDF never aborts the run: every later PDF is still converted, every later
\* page of the image list is still processed, and main returns 0.
C11_FailuresContained ==
    /\ \A f \in failures :
          f.step \in {"open_pdf", "rasterize", "read", "request", "parse", "extract",
                      "persist"}
    /\ (interrupt_at = "" /\ mpc # "done") =>
          /\ \A p \in 1..Len(pdf_files) : p < pdf_idx => PdfTaken(p)
          /\ \A k \in 1..Len(image_files) : k < img_idx => PageTaken(k)
    /\ (RanToEnd /\ failures # {}) =>
          /\ exit_status = 0
          /\ \A p \in 1..Len(pdf_files) : PdfTaken(p)
          /\ \A k \in 1..Len(image_files) : PageTaken(k)

C11_Witness ==
    /\ RanToEnd
    /\ exit_status = 0
    /\ Len(image_files) = 2
    /\ failures = {Event("request", image_files[1])}
    /\ \E n \in 1..MaxBoxes : <<image_files[2], n>> \in written

C11_WitnessPdf ==
    /\ RanToEnd
    /\ exit_status = 0
    /\ Len(pdf_files) = 2
    /\ failures = {Event("open_pdf", <<1, 0>>)}
    /\ \E n \in 1..MaxBoxes : <<<<2, 1>>, n>> \in written

(* The interrupt arrived inside the try of lines 50-167, where all of      *)
(* rasterization, model call, parsing, extraction and saving happen.       *)
Interrupted == interrupt_at \in TryPcs

\* C12: a user interrupt arriving during rasterization, a model call, parsing,
\* extraction or saving (anywhere inside main's try) ends the run at once with
\* exit status 130: no handler of a page or a region takes it, the status is
\* never 0 or 1, and no step of any page happens after it.
C12_InterruptEndsWith130 ==
    /\ [](Interrupted =>
            /\ mpc = "done"
            /\ exit_status = 130
            /\ "Process interrupted by user" \in reported
            /\ \A f \in failures : f.step # "interrupt")
    /\ [][Interrupted => UNCHANGED <<events, written, output_pages, failures, img_idx,
                                     pdf_idx, exit_status>>]_vars

C12_Witness ==
    /\ interrupt_at = "extract"
    /\ mpc = "done"
    /\ exit_status = 130
    /\ Len(image_files) = 2
    /\ img_idx = 1
    /\ failures = {}

C12_WitnessRasterize ==
    /\ interrupt_at = "convert_page"
    /\ mpc = "done"
    /\ exit_status = 130
    /\ Len(pdf_files) = 2
    /\ pdf_idx = 1
    /\ events = <<>>

====
